---------------------------- MODULE Spec2Model ----------------------------
(***************************************************************************)
(* A model of oglob (src/oglob/__init__.py): the path-predicate algebra    *)
(* (Path, File, Full, Sec, OrPath, AndPath, NotPath and the operators of   *)
(* PathPattern), the per-query _ComputeCache, and the lazy traversal       *)
(* (files.__new__, _unsafe_files_impl, _unsafe_dir_files).                 *)
(*                                                                         *)
(* A path is the sequence of its parts (pathlib's Path.parts): the         *)
(* relative path t/dir1 is <<"t", "dir1">>, the absolute path /w/t is      *)
(* <<"/", "w", "t">>.  A posix string is the sequence of its tokens, the   *)
(* separators included: "/w/t" is <<"/", "w", "/", "t">>.                  *)
(***************************************************************************)
EXTENDS Integers, Sequences, FiniteSets, TLC

VARIABLES
    root,             \* files(root, ...)
    pattern,          \* files(..., pattern, ...); the expression being built
    recursive,        \* files(..., recursive=...)
    include_dir,      \* files(..., include_dir=...)
    missing_ok,       \* files(..., missing_ok=...)
    follow_symlinks,  \* files(..., follow_symlinks=...)
    listing_reversed, \* the order in which the filesystem enumerates a directory
    debug,            \* Python's __debug__: assert statements are executed
    pc,               \* where the caller / the generator stands
    stack,            \* the active _unsafe_dir_files generators, innermost last
    cache,            \* config.cache, the one _ComputeCache of the query
    out,              \* the paths yielded so far, in order
    error,            \* the exception that ended the call, or NoError
    evald,            \* paths on which the pattern was run (history)
    listed,           \* paths on which iterdir() was called (history)
    absLog,           \* paths whose .absolute() was computed, in order (history)
    posixLog,         \* paths whose .as_posix() was computed, in order (history)
    calls,            \* decision functions invoked by the last run, in order
    lastOp,           \* the last operator applied while building: op, lhs, rhs
    ret,              \* the result of the last Evaluate: entry, val, exc
    nOps              \* operators applied so far

vars == <<root, pattern, recursive, include_dir, missing_ok, follow_symlinks,
          listing_reversed, debug, pc, stack, cache, out, error, evald,
          listed, absLog, posixLog, calls, lastOp, ret, nOps>>

queryVars == <<root, recursive, include_dir, missing_ok, follow_symlinks,
               listing_reversed>>

buildVars == <<debug, lastOp, ret, nOps>>

(***************************************************************************)
(* Bounds.                                                                 *)
(***************************************************************************)
\* How many operators the caller applies while building one expression.
MaxOps == 2

(***************************************************************************)
(* Sequence helpers.                                                       *)
(***************************************************************************)
Range(s) == {s[i] : i \in DOMAIN s}

Front(s) == SubSeq(s, 1, Len(s) - 1)

Last(s) == s[Len(s)]

Reverse(s) == [i \in 1..Len(s) |-> s[Len(s) + 1 - i]]

IsPrefix(s, t) == Len(s) <= Len(t) /\ SubSeq(t, 1, Len(s)) = s

NoDuplicates(s) == \A i, j \in DOMAIN s : s[i] = s[j] => i = j

\* Python's None, for a field that holds a path or a string.
None == <<>>

NoError == "none"

(***************************************************************************)
(* The filesystem: the fixture of tests/test_all.py under /w/t, with the   *)
(* working directory /w, plus a symlink to a file.                         *)
(***************************************************************************)
Cwd == <<"/", "w">>

T == Cwd \o <<"t">>

RealDirs ==
    {<<"/">>, Cwd, T, T \o <<"dir1">>, T \o <<"dir1", "dir2">>}

RealFiles ==
    {T \o <<"file1.py">>, T \o <<"file2.txt">>, T \o <<"dir1", "file3.py">>,
     T \o <<"dir1", "file4.jpg">>, T \o <<"dir1", "dir2", "file5.c">>}

\* <<link, target>>: os.symlink(target, link)
Symlinks ==
    {<<T \o <<"link_dir">>, T \o <<"dir1">>>>,
     <<T \o <<"link_f">>, T \o <<"file2.txt">>>>}

\* os.listdir of a real directory, in the filesystem's order.
Listing(d) ==
    CASE d = T -> <<"file1.py", "file2.txt", "dir1", "link_dir", "link_f">>
      [] d = T \o <<"dir1">> -> <<"file3.py", "file4.jpg", "dir2">>
      [] d = T \o <<"dir1", "dir2">> -> <<"file5.c">>
      [] d = Cwd -> <<"t">>
      [] d = <<"/">> -> <<"w">>
      [] OTHER -> <<>>

(***************************************************************************)
(* pathlib.                                                                *)
(***************************************************************************)
\* Path.absolute(): the working directory is prepended to a relative path;
\* nothing is resolved or normalised.
absolute(p) == IF p # <<>> /\ p[1] = "/" THEN p ELSE Cwd \o p

RECURSIVE JoinPosix(_)
JoinPosix(names) ==
    IF names = <<>> THEN <<>>
    ELSE IF Len(names) = 1 THEN names
    ELSE JoinPosix(Front(names)) \o <<"/", Last(names)>>

\* Path.as_posix(): the parts joined by "/", after the anchor if there is one.
as_posix(p) ==
    IF p # <<>> /\ p[1] = "/" THEN <<"/">> \o JoinPosix(Tail(p))
    ELSE JoinPosix(p)

\* Path.parts
parts(p) == p

\* Path.name: the last part, "" for the anchor alone
name(p) == IF p = <<>> \/ p = <<"/">> THEN "" ELSE Last(p)

IsLink(q) == \E l \in Symlinks : l[1] = q

Target(q) == (CHOOSE l \in Symlinks : l[1] = q)[2]

\* The real location of an absolute path: every symlink on the way followed.
RECURSIVE resolve(_)
resolve(a) ==
    IF Len(a) <= 1 THEN a
    ELSE LET q == resolve(Front(a)) \o <<Last(a)>>
         IN  IF IsLink(q) THEN Target(q) ELSE q

\* Path.is_symlink(): lstat, the last component is not followed
is_symlink(p) ==
    LET a == absolute(p)
    IN  Len(a) > 1 /\ IsLink(resolve(Front(a)) \o <<Last(a)>>)

\* Path.exists(): stat, symlinks followed
exists(p) == resolve(absolute(p)) \in RealDirs \cup RealFiles

\* Path.is_dir(): stat, symlinks followed
is_dir(p) == resolve(absolute(p)) \in RealDirs

\* Path.iterdir(): the children of p, each as p / name
iterdir(p, rev) ==
    LET names == Listing(resolve(absolute(p)))
        kids == [i \in 1..Len(names) |-> p \o <<names[i]>>]
    IN  IF rev THEN Reverse(kids) ELSE kids

(***************************************************************************)
(* The decision functions the caller wraps in leaf patterns.  "always",    *)
(* "endswith_py" and "has_dir1" are the lambdas of the tests; "boom"       *)
(* raises on every argument.                                               *)
(***************************************************************************)
PyNames == {"file1.py", "file3.py"}

\* pred(arg): "true", "false" or "raise"
Apply(pred, arg) ==
    LET b(x) == IF x THEN "true" ELSE "false"
    IN  CASE pred = "always" -> "true"
          [] pred = "endswith_py" -> b(arg \in PyNames)
          [] pred = "has_dir1" -> b("dir1" \in Range(arg))
          [] pred = "has_dir2" -> b("dir2" \in Range(arg))
          [] pred = "starts_t" -> b(arg # <<>> /\ arg[1] = "t")
          [] pred = "in_link_dir" ->
                b(Len(arg) >= 2 /\ arg[Len(arg) - 1] = "link_dir")
          [] pred = "boom" -> "raise"

(***************************************************************************)
(* _ComputeCache                                                           *)
(***************************************************************************)
ComputeCache(base, abs, fullpath) ==
    [base |-> base, absolute |-> abs, fullpath |-> fullpath]

\* a faulty reset: the derived fields survive the change of base
reset_keeps_derived(c, p) == [c EXCEPT !.base = p]

\* _ComputeCache.reset
reset(c, p) == ComputeCache(p, None, None)

(***************************************************************************)
(* The pattern nodes: the dataclasses Path, File, Full, Sec (subclasses of *)
(* PathPattern) and OrPath, AndPath, NotPath (no base class).              *)
(***************************************************************************)
\* a decision function, as the value of a field
Callable(fn) == [fn |-> fn]

Path(pred) == [tag |-> "Path", pred |-> Callable(pred)]

File(pred) == [tag |-> "File", pred |-> Callable(pred)]

Full(pred) == [tag |-> "Full", pred |-> Callable(pred)]

Sec(pred, abs) ==
    [tag |-> "Sec", pred |-> Callable(pred), absolute |-> abs]

OrPath(lhs, rhs) == [tag |-> "OrPath", lhs |-> lhs, rhs |-> rhs]

AndPath(lhs, rhs) == [tag |-> "AndPath", lhs |-> lhs, rhs |-> rhs]

NotPath(pred) == [tag |-> "NotPath", pred |-> pred]

\* A value that is no pattern at all: a bare lambda given as an operand.
RawCallable == [tag |-> "function"]

\* A raised exception, as the value of the expression that raised it.
Raised(type) == [tag |-> type]

IsRaised(x) == x.tag \in {"AssertionError", "TypeError"}

LeafTags == {"Path", "File", "Full", "Sec"}

CompositeTags == {"OrPath", "AndPath", "NotPath"}

\* isinstance(x, PathPattern): only the four leaf classes derive from it
IsPathPattern(x) == x.tag \in LeafTags

(***************************************************************************)
(* _run.  A run threads s = [cache, calls, absLog, posixLog] through the   *)
(* tree and returns [val, exc, s]: the value, the exception raised (or     *)
(* NoError), and the cache and the logs as the run left them.              *)
(***************************************************************************)
\* self.pred(arg)
Invoke(pred, arg, s) ==
    LET r == Apply(pred.fn, arg)
    IN  [val |-> r = "true",
         exc |-> IF r = "raise" THEN "PredError" ELSE NoError,
         s |-> [s EXCEPT !.calls = Append(@, pred.fn)]]

Path_run(pat, s) == Invoke(pat.pred, s.cache.base, s)

File_run(pat, s) == Invoke(pat.pred, name(s.cache.base), s)

\* cache.absolute = cache.base.absolute()
ComputeAbsolute(s) ==
    [s EXCEPT !.cache.absolute = absolute(s.cache.base),
              !.absLog = Append(@, s.cache.base)]

\* cache.fullpath = absolute.as_posix()
ComputeFullpath(s) ==
    [s EXCEPT !.cache.fullpath = as_posix(s.cache.absolute),
              !.posixLog = Append(@, s.cache.base)]

Full_run(pat, s) ==
    IF s.cache.fullpath # None THEN Invoke(pat.pred, s.cache.fullpath, s)
    ELSE LET s1 == IF s.cache.absolute = None THEN ComputeAbsolute(s) ELSE s
             s2 == ComputeFullpath(s1)
         IN  Invoke(pat.pred, s2.cache.fullpath, s2)

Sec_run(pat, s) ==
    IF pat.absolute
    THEN LET s1 == IF s.cache.absolute = None THEN ComputeAbsolute(s) ELSE s
         IN  Invoke(pat.pred, parts(s1.cache.absolute), s1)
    ELSE Invoke(pat.pred, parts(s.cache.base), s)

RECURSIVE Run(_, _)

\* a faulty OrPath._run: both sides are run whatever the left one says
OrPath_run_eager(pat, s) ==
    LET l == Run(pat.lhs, s)
        r == Run(pat.rhs, l.s)
    IN  IF l.exc # NoError THEN l
        ELSE IF r.exc # NoError THEN r
        ELSE [r EXCEPT !.val = l.val \/ r.val]

\* self.lhs._run(cache) or self.rhs._run(cache)
OrPath_run(pat, s) ==
    LET l == Run(pat.lhs, s)
    IN  IF l.exc # NoError \/ l.val THEN l ELSE Run(pat.rhs, l.s)

\* self.lhs._run(cache) and self.rhs._run(cache)
AndPath_run(pat, s) ==
    LET l == Run(pat.lhs, s)
    IN  IF l.exc # NoError \/ ~l.val THEN l ELSE Run(pat.rhs, l.s)

\* not self.pred._run(cache)
NotPath_run(pat, s) ==
    LET r == Run(pat.pred, s)
    IN  IF r.exc # NoError THEN r ELSE [r EXCEPT !.val = ~@]

\* pattern._run(cache): dispatch on the class of the node; a value without
\* a _run method raises AttributeError
Run(pat, s) ==
    CASE pat.tag = "Path" -> Path_run(pat, s)
      [] pat.tag = "File" -> File_run(pat, s)
      [] pat.tag = "Full" -> Full_run(pat, s)
      [] pat.tag = "Sec" -> Sec_run(pat, s)
      [] pat.tag = "OrPath" -> OrPath_run(pat, s)
      [] pat.tag = "AndPath" -> AndPath_run(pat, s)
      [] pat.tag = "NotPath" -> NotPath_run(pat, s)
      [] OTHER -> [val |-> FALSE, exc |-> "AttributeError", s |-> s]

(***************************************************************************)
(* The operators of PathPattern.                                           *)
(***************************************************************************)
\* _check_arg: the assert passes, or is not executed (python -O)
check_arg(pat) == ~debug \/ IsPathPattern(pat)

PathPattern_or(self, other) ==
    IF check_arg(other) THEN OrPath(self, other) ELSE Raised("AssertionError")

PathPattern_and(self, other) ==
    IF check_arg(other) THEN AndPath(self, other)
    ELSE Raised("AssertionError")

PathPattern_invert(self) == NotPath(self)

\* a | b: type(a).__or__ if the class of a defines it, else TypeError (no
\* class here defines __ror__)
BinOr(a, b) ==
    IF IsPathPattern(a) THEN PathPattern_or(a, b) ELSE Raised("TypeError")

\* a & b
BinAnd(a, b) ==
    IF IsPathPattern(a) THEN PathPattern_and(a, b) ELSE Raised("TypeError")

\* ~a
Invert(a) ==
    IF IsPathPattern(a) THEN PathPattern_invert(a) ELSE Raised("TypeError")

\* PathPattern.__sub__: _check_arg(other); return self & ~other
PathPattern_sub(self, other) ==
    IF ~check_arg(other) THEN Raised("AssertionError")
    ELSE LET n == Invert(other)
         IN  IF IsRaised(n) THEN n ELSE BinAnd(self, n)

\* a - b
BinSub(a, b) ==
    IF IsPathPattern(a) THEN PathPattern_sub(a, b) ELSE Raised("TypeError")

\* no operator applied yet; nothing evaluated yet
NoOperand == [tag |-> "none"]

NoOp == [op |-> "none", lhs |-> NoOperand, rhs |-> NoOperand,
         val |-> NoOperand]

NoRet == [entry |-> None, val |-> FALSE, exc |-> NoError]

(***************************************************************************)
(* The inputs of a query.                                                  *)
(***************************************************************************)
Roots ==
    {<<"t">>, T, <<"t", "dir1">>, <<"t", "file1.py">>, <<"t", "nothing">>,
     <<"t", "link_dir">>, <<"t", "link_f">>}

QueryPatterns ==
    {Path("always"),
     File("endswith_py"),
     Full("has_dir1"),
     OrPath(File("endswith_py"), Full("has_dir1")),
     AndPath(Full("has_dir1"), Sec("has_dir2", TRUE)),
     AndPath(Full("has_dir1"), NotPath(File("endswith_py"))),
     OrPath(Sec("has_dir2", TRUE), AndPath(Full("has_dir1"), Full("always"))),
     NotPath(Sec("starts_t", FALSE)),
     OrPath(Path("in_link_dir"), Sec("starts_t", TRUE)),
     OrPath(Full("has_dir1"), File("boom")),
     AndPath(File("endswith_py"), Path("boom"))}

(***************************************************************************)
(* The traversal.                                                          *)
(***************************************************************************)
\* config.cache.reset(p); config.pattern._run(config.cache)
Test(p) ==
    Run(pattern, [cache |-> reset(cache, p), calls |-> <<>>,
                  absLog |-> absLog, posixLog |-> posixLog])

\* what a run leaves behind in the cache and the history
Ran(p, r) ==
    /\ cache' = r.s.cache
    /\ calls' = r.s.calls
    /\ absLog' = r.s.absLog
    /\ posixLog' = r.s.posixLog
    /\ evald' = evald \cup {p}

NotRun == UNCHANGED <<cache, calls, absLog, posixLog, evald>>

\* an exception leaves the generators: the sequence ends there
Propagate(exc) ==
    /\ pc' = "raised"
    /\ error' = exc
    /\ stack' = <<>>
    /\ UNCHANGED <<out, listed>>

\* a faulty Yield: the entry is yielded whatever the pattern said
Yield_unconditional(p, r) == out' = Append(out, p)

\* if config.pattern._run(config.cache): yield p
Yield(p, r) == out' = IF r.val THEN Append(out, p) ELSE out

\* _unsafe_dir_files(p, config) is entered: the listing of p starts
Enter(p) ==
    /\ stack' = Append(stack, [curdir |-> p,
                               rest |-> iterdir(p, listing_reversed)])
    /\ listed' = listed \cup {p}

\* a faulty Descend: the listing of a subdirectory starts whatever
\* config.recursive says
Descend_always(each) ==
    LET popped == [stack EXCEPT ![Len(stack)].rest = Tail(@)]
    IN  /\ stack' = Append(popped, [curdir |-> each,
                                    rest |-> iterdir(each, listing_reversed)])
        /\ listed' = listed \cup {each}

\* if config.recursive: yield from _unsafe_dir_files(each, config)
Descend(each) ==
    LET popped == [stack EXCEPT ![Len(stack)].rest = Tail(@)]
    IN  IF recursive
        THEN /\ stack' = Append(popped, [curdir |-> each,
                                rest |-> iterdir(each, listing_reversed)])
             /\ listed' = listed \cup {each}
        ELSE /\ stack' = popped
             /\ UNCHANGED listed

\* a faulty MissingOk: a missing root always raises
MissingOk_never == FALSE

\* if missing_ok
MissingOk == missing_ok

\* files.__new__, the root does not exist and missing_ok: iter(())
files_missing_ok ==
    /\ pc = "call"
    /\ ~exists(root)
    /\ MissingOk
    /\ pc' = "done"
    /\ NotRun
    /\ UNCHANGED <<queryVars, buildVars, pattern, stack, out, error, listed>>

\* files.__new__, the root does not exist: raise FileNotFoundError
files_not_found ==
    /\ pc = "call"
    /\ ~exists(root)
    /\ ~MissingOk
    /\ pc' = "raised"
    /\ error' = "FileNotFoundError"
    /\ NotRun
    /\ UNCHANGED <<queryVars, buildVars, pattern, stack, out, listed>>

\* files.__new__, the root exists: the config and its cache are built
files_new ==
    /\ pc = "call"
    /\ exists(root)
    /\ cache' = ComputeCache(root, None, None)
    /\ pc' = "impl"
    /\ UNCHANGED <<queryVars, buildVars, pattern, stack, out, error, listed,
                   calls, absLog, posixLog, evald>>

\* a faulty SkipsSymlink: symlinks are never skipped
SkipsSymlink_never(p) == FALSE

\* not config.follow_symlinks and p.is_symlink()
SkipsSymlink(p) == ~follow_symlinks /\ is_symlink(p)

\* _unsafe_files_impl: the root is a symlink that is not followed
impl_symlink ==
    /\ pc = "impl"
    /\ SkipsSymlink(root)
    /\ pc' = "done"
    /\ NotRun
    /\ UNCHANGED <<queryVars, buildVars, pattern, stack, out, error, listed>>

\* a faulty IncludesDir: directories are tested whatever include_dir says
IncludesDir_always == TRUE

\* if config.include_dir
IncludesDir == include_dir

\* _unsafe_files_impl: the root is a directory
impl_dir ==
    /\ pc = "impl"
    /\ ~SkipsSymlink(root)
    /\ is_dir(root)
    /\ UNCHANGED <<queryVars, buildVars, pattern>>
    /\ IF IncludesDir
       THEN LET r == Test(root)
            IN  /\ Ran(root, r)
                /\ IF r.exc # NoError THEN Propagate(r.exc)
                   ELSE /\ Yield(root, r)
                        /\ Enter(root)
                        /\ pc' = "dir"
                        /\ UNCHANGED error
       ELSE /\ NotRun
            /\ Enter(root)
            /\ pc' = "dir"
            /\ UNCHANGED <<out, error>>

\* _unsafe_files_impl: the root is not a directory
impl_file ==
    /\ pc = "impl"
    /\ ~SkipsSymlink(root)
    /\ ~is_dir(root)
    /\ UNCHANGED <<queryVars, buildVars, pattern>>
    /\ LET r == Test(root)
       IN  /\ Ran(root, r)
           /\ IF r.exc # NoError THEN Propagate(r.exc)
              ELSE /\ Yield(root, r)
                   /\ pc' = "done"
                   /\ UNCHANGED <<stack, error, listed>>

\* the entry the innermost for loop takes next
Each == Head(stack[Len(stack)].rest)

Looping == pc = "dir" /\ stack # <<>> /\ stack[Len(stack)].rest # <<>>

\* _unsafe_dir_files: the entry is a symlink that is not followed: continue
dir_symlink ==
    /\ Looping
    /\ SkipsSymlink(Each)
    /\ stack' = [stack EXCEPT ![Len(stack)].rest = Tail(@)]
    /\ NotRun
    /\ UNCHANGED <<queryVars, buildVars, pattern, pc, out, error, listed>>

\* _unsafe_dir_files: the entry is a directory
dir_dir ==
    /\ Looping
    /\ ~SkipsSymlink(Each)
    /\ is_dir(Each)
    /\ UNCHANGED <<queryVars, buildVars, pattern>>
    /\ IF IncludesDir
       THEN LET r == Test(Each)
            IN  /\ Ran(Each, r)
                /\ IF r.exc # NoError THEN Propagate(r.exc)
                   ELSE /\ Yield(Each, r)
                        /\ Descend(Each)
                        /\ UNCHANGED <<pc, error>>
       ELSE /\ NotRun
            /\ Descend(Each)
            /\ UNCHANGED <<pc, out, error>>

\* _unsafe_dir_files: the entry is not a directory
dir_file ==
    /\ Looping
    /\ ~SkipsSymlink(Each)
    /\ ~is_dir(Each)
    /\ UNCHANGED <<queryVars, buildVars, pattern>>
    /\ LET r == Test(Each)
       IN  /\ Ran(Each, r)
           /\ IF r.exc # NoError THEN Propagate(r.exc)
              ELSE /\ Yield(Each, r)
                   /\ stack' = [stack EXCEPT ![Len(stack)].rest = Tail(@)]
                   /\ UNCHANGED <<pc, error, listed>>

\* _unsafe_dir_files: the for loop is exhausted, the generator returns
dir_return ==
    /\ pc = "dir"
    /\ stack # <<>>
    /\ stack[Len(stack)].rest = <<>>
    /\ stack' = Front(stack)
    /\ pc' = IF Len(stack) = 1 THEN "done" ELSE "dir"
    /\ NotRun
    /\ UNCHANGED <<queryVars, buildVars, pattern, out, error, listed>>

Init ==
    /\ root \in Roots
    /\ pattern \in QueryPatterns
    /\ recursive \in BOOLEAN
    /\ include_dir \in BOOLEAN
    /\ missing_ok \in BOOLEAN
    /\ follow_symlinks \in BOOLEAN
    /\ listing_reversed \in BOOLEAN
    /\ debug = TRUE
    /\ pc = "call"
    /\ stack = <<>>
    /\ cache = ComputeCache(None, None, None)
    /\ out = <<>>
    /\ error = NoError
    /\ evald = {}
    /\ listed = {}
    /\ absLog = <<>>
    /\ posixLog = <<>>
    /\ calls = <<>>
    /\ lastOp = NoOp
    /\ ret = NoRet
    /\ nOps = 0

Next ==
    \/ files_missing_ok
    \/ files_not_found
    \/ files_new
    \/ impl_symlink
    \/ impl_dir
    \/ impl_file
    \/ dir_symlink
    \/ dir_dir
    \/ dir_file
    \/ dir_return

Spec == Init /\ [][Next]_vars

(***************************************************************************)
(* Building an expression and evaluating it: the caller starts from a leaf *)
(* and applies |, &, - and ~ to the expression built so far, with a leaf   *)
(* or a bare callable as the other operand, on either side; the result is  *)
(* then run against entries, each time after a reset of the cache.         *)
(***************************************************************************)
Leaves ==
    {File("endswith_py"), Full("has_dir1"), Sec("has_dir2", TRUE),
     Sec("starts_t", FALSE), Path("boom")}

Operands == Leaves \cup {RawCallable}

Entries ==
    {<<"t", "file1.py">>, <<"t", "dir1">>, <<"t", "dir1", "dir2", "file5.c">>,
     <<"t", "link_dir", "file3.py">>, T \o <<"file2.txt">>,
     T \o <<"dir1", "dir2">>}

\* the expression l <op> r was evaluated by the interpreter, giving v
Built(op, l, r, v) ==
    /\ pc = "build"
    /\ nOps < MaxOps
    /\ nOps' = nOps + 1
    /\ lastOp' = [op |-> op, lhs |-> l, rhs |-> r, val |-> v]
    /\ IF IsRaised(v)
       THEN pc' = "raised" /\ error' = v.tag /\ UNCHANGED pattern
       ELSE pattern' = v /\ UNCHANGED <<pc, error>>
    /\ NotRun
    /\ UNCHANGED <<queryVars, debug, ret, stack, out, listed>>

\* pattern | other
op_or == \E other \in Operands : Built("or", pattern, other, BinOr(pattern, other))

\* other | pattern
op_ror == \E other \in Operands : Built("or", other, pattern, BinOr(other, pattern))

\* pattern & other
op_and == \E other \in Operands : Built("and", pattern, other, BinAnd(pattern, other))

\* other & pattern
op_rand == \E other \in Operands : Built("and", other, pattern, BinAnd(other, pattern))

\* pattern - other
op_sub == \E other \in Operands : Built("sub", pattern, other, BinSub(pattern, other))

\* other - pattern
op_rsub == \E other \in Operands : Built("sub", other, pattern, BinSub(other, pattern))

\* ~pattern
op_invert == Built("invert", pattern, NoOperand, Invert(pattern))

\* cache.reset(entry); pattern._run(cache), on a cache of its own
evaluate ==
    /\ pc \in {"build", "run"}
    /\ \E entry \in Entries :
          LET r == Run(pattern, [cache |-> reset(cache, entry), calls |-> <<>>,
                                 absLog |-> <<>>, posixLog |-> <<>>])
          IN  /\ ret' = [entry |-> entry, val |-> r.val, exc |-> r.exc]
              /\ cache' = r.s.cache
              /\ calls' = r.s.calls
              /\ absLog' = r.s.absLog
              /\ posixLog' = r.s.posixLog
              /\ evald' = {entry}
    /\ pc' = "run"
    /\ UNCHANGED <<queryVars, debug, lastOp, nOps, pattern, stack, out, error,
                   listed>>

InitAlgebra ==
    /\ pattern \in Leaves
    /\ debug \in BOOLEAN
    /\ pc = "build"
    /\ root = None
    /\ recursive = FALSE
    /\ include_dir = FALSE
    /\ missing_ok = FALSE
    /\ follow_symlinks = FALSE
    /\ listing_reversed = FALSE
    /\ stack = <<>>
    /\ cache = ComputeCache(None, None, None)
    /\ out = <<>>
    /\ error = NoError
    /\ evald = {}
    /\ listed = {}
    /\ absLog = <<>>
    /\ posixLog = <<>>
    /\ calls = <<>>
    /\ lastOp = NoOp
    /\ ret = NoRet
    /\ nOps = 0

NextAlgebra ==
    \/ op_or
    \/ op_ror
    \/ op_and
    \/ op_rand
    \/ op_sub
    \/ op_rsub
    \/ op_invert
    \/ evaluate

SpecAlgebra == InitAlgebra /\ [][NextAlgebra]_vars

(***************************************************************************)
(* What the claims speak of.                                               *)
(***************************************************************************)
\* p itself and every path below p, symlinks followed
RECURSIVE Descendants(_)
Descendants(p) ==
    IF is_dir(p)
    THEN {p} \cup UNION {Descendants(c) : c \in Range(iterdir(p, FALSE))}
    ELSE {p}

Children(p) == Range(iterdir(p, FALSE))

\* the symlinked subdirectories of the tree under the root
SymlinkedSubdirs ==
    {d \in Descendants(root) \ {root} : is_symlink(d) /\ is_dir(d)}

\* p is, or lies below, a symlink found below the root
BehindSymlink(p) ==
    \E k \in (Len(root) + 1)..Len(p) : is_symlink(SubSeq(p, 1, k))

\* the outcome of running pat against entry e on a cache reset to e
Outcome(pat, e) ==
    LET r == Run(pat, [cache |-> reset(cache, e), calls |-> <<>>,
                       absLog |-> <<>>, posixLog |-> <<>>])
    IN  IF r.exc # NoError THEN "raise" ELSE IF r.val THEN "true" ELSE "false"

Matches(e) == Outcome(pattern, e) = "true"

\* Python's  a or b,  a and b,  not a  over outcomes: b is a thunk not
\* taken when a decides
PyOr(a, b) == IF a = "false" THEN b ELSE a

PyAnd(a, b) == IF a = "true" THEN b ELSE a

PyNot(a) == IF a = "raise" THEN a ELSE IF a = "true" THEN "false" ELSE "true"

IsNode(x) == x.tag \in LeafTags \cup CompositeTags

\* every child of every composite node of x is a node
RECURSIVE WellFormed(_)
WellFormed(x) ==
    CASE x.tag \in LeafTags -> TRUE
      [] x.tag \in {"OrPath", "AndPath"} ->
            WellFormed(x.lhs) /\ WellFormed(x.rhs)
      [] x.tag = "NotPath" -> WellFormed(x.pred)
      [] OTHER -> FALSE

Finished == pc \in {"done", "raised"}

\* the directories the traversal came across: the root, and the directory
\* children of every directory it listed
DirsEncountered ==
    {d \in {root} \cup UNION {Children(l) : l \in listed} : is_dir(d)}

(***************************************************************************)
(* C1: with recursive=true and follow_symlinks=false, a symlinked          *)
(* subdirectory of the tree is never evaluated, yielded or listed, and     *)
(* nothing at or below it is; with follow_symlinks=true, once the          *)
(* traversal is done, every symlinked subdirectory was listed and every    *)
(* matching entry of the tree, whether below a link or below the real      *)
(* directory, was yielded under the path it was reached by.                *)
(***************************************************************************)
C1_SymlinkPolicy ==
    recursive =>
      /\ ~follow_symlinks =>
           \A d \in SymlinkedSubdirs :
              \A p \in evald \cup Range(out) \cup listed : ~IsPrefix(d, p)
      /\ (follow_symlinks /\ pc = "done" /\ is_dir(root)) =>
           /\ SymlinkedSubdirs \subseteq listed
           /\ \A e \in Descendants(root) :
                 ((is_dir(e) => include_dir) /\ Matches(e)) =>
                    e \in Range(out)

C1_Witness ==
    /\ pc = "done"
    /\ recursive
    /\ follow_symlinks
    /\ root = <<"t">>
    /\ <<"t", "link_dir", "file3.py">> \in Range(out)
    /\ <<"t", "dir1", "file3.py">> \in Range(out)

(***************************************************************************)
(* C6: with recursive=false on a directory root only the root is listed,   *)
(* the pattern is run on direct children of the root only (and on the root *)
(* only if include_dir), and only those are yielded; with recursive=true,  *)
(* once the traversal is done, every directory of the tree that the        *)
(* symlink policy lets through was listed.                                 *)
(***************************************************************************)
C6_Recursion ==
    (is_dir(root) /\ ~SkipsSymlink(root)) =>
      /\ ~recursive =>
           /\ listed \subseteq {root}
           /\ evald \subseteq {root} \cup Children(root)
           /\ Range(out) \subseteq {root} \cup Children(root)
           /\ root \in evald => include_dir
      /\ (recursive /\ pc = "done") =>
           listed = {d \in Descendants(root) :
                        is_dir(d) /\ (follow_symlinks \/ ~BehindSymlink(d))}

C6_Witness ==
    /\ pc = "done"
    /\ ~recursive
    /\ root = <<"t">>
    /\ follow_symlinks
    /\ include_dir
    /\ <<"t", "dir1">> \in evald
    /\ <<"t", "file1.py">> \in Range(out)

(***************************************************************************)
(* C7 as stated: once the traversal is done, a directory that was come     *)
(* across (the root, or a directory child of a listed directory) was       *)
(* yielded if and only if include_dir is set and the pattern matches it;   *)
(* without include_dir no directory is evaluated or yielded.               *)
(***************************************************************************)
C7_Original ==
    /\ ~include_dir => \A d \in evald \cup Range(out) : ~is_dir(d)
    /\ pc = "done" =>
         \A d \in DirsEncountered :
            d \in Range(out) <=> (include_dir /\ Matches(d))

(***************************************************************************)
(* C7 as amended: the same, for every directory come across that is not a  *)
(* symlink left out by follow_symlinks=false; such a symlink is never      *)
(* evaluated or yielded.                                                   *)
(***************************************************************************)
C7_IncludeDir ==
    /\ ~include_dir => \A d \in evald \cup Range(out) : ~is_dir(d)
    /\ \A d \in evald \cup Range(out) : ~SkipsSymlink(d)
    /\ pc = "done" =>
         \A d \in DirsEncountered :
            ~SkipsSymlink(d) =>
               (d \in Range(out) <=> (include_dir /\ Matches(d)))

C7_Witness ==
    /\ pc = "done"
    /\ include_dir
    /\ ~recursive
    /\ root = <<"t">>
    /\ pattern = Full("has_dir1")
    /\ <<"t", "dir1">> \in Range(out)
    /\ <<"t", "dir1", "file3.py">> \notin evald

(***************************************************************************)
(* C8: when the root is an existing plain file, the sequence produced is   *)
(* <<root>> if the pattern matches the root and empty otherwise, whatever  *)
(* recursive and include_dir are.                                          *)
(***************************************************************************)
PlainFile(p) == exists(p) /\ ~is_dir(p) /\ ~is_symlink(p)

C8_FileRoot ==
    PlainFile(root) =>
      /\ Finished => out = IF Matches(root) THEN <<root>> ELSE <<>>
      /\ ~Finished => out = <<>>
      /\ listed = {}

C8_Witness ==
    /\ pc = "done"
    /\ PlainFile(root)
    /\ recursive
    /\ include_dir
    /\ out = <<root>>

(***************************************************************************)
(* C9: when the root does not exist, the call ends at once: with           *)
(* missing_ok it returns an empty sequence, without it it raises           *)
(* FileNotFoundError; the pattern is never run, nothing is listed and      *)
(* nothing is yielded.                                                     *)
(***************************************************************************)
C9_MissingRoot ==
    ~exists(root) =>
      /\ out = <<>> /\ evald = {} /\ listed = {} /\ stack = <<>>
      /\ absLog = <<>> /\ posixLog = <<>> /\ calls = <<>>
      /\ pc \in {"call", "done", "raised"}
      /\ pc = "done" <=> (pc # "call" /\ missing_ok)
      /\ pc = "raised" <=> (pc # "call" /\ ~missing_ok)
      /\ error = IF pc = "raised" THEN "FileNotFoundError" ELSE NoError

C9_Witness == ~exists(root) /\ missing_ok /\ pc = "done"

(***************************************************************************)
(* C10: in every state of a traversal the cache holds the entry last       *)
(* tested; its absolute field, when set, is the absolute form of that      *)
(* entry and its fullpath field, when set, is the posix string of that     *)
(* absolute form; and over the whole query absolute() and as_posix() are   *)
(* computed at most once for each entry, and only for entries tested.      *)
(***************************************************************************)
C10_Cache ==
    /\ cache.absolute # None => cache.absolute = absolute(cache.base)
    /\ cache.fullpath # None =>
         /\ cache.absolute # None
         /\ cache.fullpath = as_posix(absolute(cache.base))
    /\ evald # {} => cache.base \in evald
    /\ NoDuplicates(absLog) /\ NoDuplicates(posixLog)
    /\ Range(absLog) \cup Range(posixLog) \subseteq evald

C10_Witness ==
    /\ pattern = OrPath(Sec("has_dir2", TRUE),
                        AndPath(Full("has_dir1"), Full("always")))
    /\ calls = <<"has_dir2", "has_dir1", "always">>
    /\ Len(absLog) >= 2
    /\ cache.base = <<"t", "dir1", "file3.py">>
    /\ cache.fullpath = <<"/", "w", "/", "t", "/", "dir1", "/", "file3.py">>

(***************************************************************************)
(* C2: for leaves p and q, p - q is a pattern that matches an entry if and *)
(* only if p matches it and q does not (the outcome of p and not q).       *)
(***************************************************************************)
C2_SubIsAndNot ==
    (lastOp.op = "sub" /\ lastOp.lhs \in Leaves /\ lastOp.rhs \in Leaves) =>
      /\ IsNode(lastOp.val)
      /\ \A e \in Entries :
            Outcome(lastOp.val, e) =
               PyAnd(Outcome(lastOp.lhs, e), PyNot(Outcome(lastOp.rhs, e)))

(***************************************************************************)
(* C3: for all patterns p and q, leaves or built by operators, p | q,      *)
(* p & q and ~p are patterns whose run on any entry gives  run(p) or       *)
(* run(q),  run(p) and run(q),  not run(p).                                *)
(***************************************************************************)
C3_Laws ==
    /\ (lastOp.op = "or" /\ IsNode(lastOp.lhs) /\ IsNode(lastOp.rhs)) =>
         /\ IsNode(lastOp.val)
         /\ \A e \in Entries :
               Outcome(lastOp.val, e) =
                  PyOr(Outcome(lastOp.lhs, e), Outcome(lastOp.rhs, e))
    /\ (lastOp.op = "and" /\ IsNode(lastOp.lhs) /\ IsNode(lastOp.rhs)) =>
         /\ IsNode(lastOp.val)
         /\ \A e \in Entries :
               Outcome(lastOp.val, e) =
                  PyAnd(Outcome(lastOp.lhs, e), Outcome(lastOp.rhs, e))
    /\ (lastOp.op = "invert" /\ IsNode(lastOp.lhs)) =>
         /\ IsNode(lastOp.val)
         /\ \A e \in Entries :
               Outcome(lastOp.val, e) = PyNot(Outcome(lastOp.lhs, e))

(***************************************************************************)
(* C4: an operator applied to patterns, leaves or built by operators,      *)
(* never raises: its value is a pattern, all of whose composite nodes hold *)
(* patterns only.                                                          *)
(***************************************************************************)
C4_Closed ==
    (/\ lastOp.op # "none"
     /\ IsNode(lastOp.lhs)
     /\ lastOp.op = "invert" \/ IsNode(lastOp.rhs)) =>
      /\ IsNode(lastOp.val)
      /\ WellFormed(lastOp.val)

(***************************************************************************)
(* C5: when p | q is run on an entry that p matches, the run invokes the   *)
(* decision functions p invokes and no other, does not raise and gives     *)
(* true; when p & q is run on an entry that p does not match, likewise,    *)
(* and it gives false.                                                     *)
(***************************************************************************)
C5_ShortCircuit ==
    (pc = "run" /\ pattern.tag \in {"OrPath", "AndPath"}) =>
      LET p == Run(pattern.lhs, [cache |-> reset(cache, ret.entry),
                                 calls |-> <<>>, absLog |-> <<>>,
                                 posixLog |-> <<>>])
          decided == IF pattern.tag = "OrPath" THEN p.val ELSE ~p.val
      IN  (p.exc = NoError /\ decided) =>
             /\ calls = p.s.calls
             /\ ret.exc = NoError
             /\ ret.val = p.val

C5_Witness ==
    /\ pc = "run"
    /\ pattern = OrPath(Full("has_dir1"), Path("boom"))
    /\ ret = [entry |-> <<"t", "dir1">>, val |-> TRUE, exc |-> NoError]
    /\ calls = <<"has_dir1">>

=============================================================================
